---- MODULE Spec2Model ----
(***************************************************************************)
(* Model of the pr-reviewer service store (internal/storage/storage.go)    *)
(* over the schema of migrations/001_init.sql.  Each table is a variable;  *)
(* each Store method is one action that performs the whole method.         *)
(* A query without ORDER BY may return its rows in any order, so LIMIT 1 / *)
(* LIMIT 2 / a single-row Get over several rows are nondeterministic       *)
(* choices among the qualifying rows.                                      *)
(***************************************************************************)
EXTENDS Integers, FiniteSets, Sequences, TLC

\* ---------------------------------------------------------------- bounds
\* the ids that exist
Users == {"u1", "u2", "u3", "u4"}
Teams == {"backend", "frontend"}
PRIds == {"pr1", "pr2"}
\* the clock runs 0..MaxTime
MaxTime == 1
\* LIMIT 2 of CreatePR's reviewer query
MaxReviewers == 2
\* the connections that serve requests at the same time
Procs == {"a", "b"}

\* ----------------------------------------------------------------- state
VARIABLES
    users,          \* table users: user_id -> [username, is_active]
    teams,          \* table teams: set of names
    team_members,   \* table team_members: set of <<team_name, user_id>>
    prs,            \* table prs: pull_request_id -> row
    pr_reviewers,   \* table pr_reviewers: set of <<pull_request_id, user_id>>
    now,            \* the wall clock read by time.Now()
    last,           \* what the last call returned
    inflight        \* per connection: the call it is in the middle of

vars == <<users, teams, team_members, prs, pr_reviewers, now, last, inflight>>
store == <<users, teams, team_members, prs, pr_reviewers>>

\* ------------------------------------------------------------- row shapes
\* models.User as GetPR returns it, and a row of table users
UserView(id, row) ==
    [user_id |-> id, username |-> row.username, is_active |-> row.is_active]

UserRow(username, active) == [username |-> username, is_active |-> active]

\* models.PullRequest as GetPR returns it, and a row of table prs
PRView(pid, row, reviewers) ==
    [id |-> pid, title |-> row.title, author_id |-> row.author_id,
     status |-> row.status, created_at |-> row.created_at,
     merged_at |-> row.merged_at, reviewers |-> reviewers]

PRRow(title, author, status, created, merged) ==
    [title |-> title, author_id |-> author, status |-> status,
     created_at |-> created, merged_at |-> merged]

\* a call in the middle of its statements: the method (op), the statement it
\* is about to run (pc), its arguments (id: the team name or PR id; arg: the
\* member list, <<title, author>>, the old reviewer or the exclusion list) and
\* its local variables: teamName (team), the link being replaced with its
\* replacement (pick), the rows still to loop over (todo), reassignedPRs
\* (out); and of its transaction, if it runs in one, the users rows it has
\* written and holds locked (locked), the reviewer links it has rewritten
\* (wlinks) and whether a statement of it has failed (failed)
Req(op, pc, id, arg) ==
    [id |-> id, op |-> op, pc |-> pc, arg |-> arg, team |-> "", pick |-> <<>>,
     todo |-> {}, locked |-> {}, wlinks |-> {}, failed |-> FALSE, out |-> <<>>]

Idle == Req("idle", "", "", "")

\* a nullable column: <<>> is NULL, <<v>> is the value v
Null == <<>>
Some(v) == <<v>>

\* error values (storage.go:16-23, :157) and nil
OK == "nil"
ErrTeamExists == "TEAM_EXISTS"
ErrPRExists == "PR_EXISTS"
ErrNotFound == "NOT_FOUND"
ErrPRMerged == "PR_MERGED"
ErrNotAssigned == "NOT_ASSIGNED"
ErrNoCandidate == "NO_CANDIDATE"
ErrAuthorTeam == "author team not found"
\* errors of the driver: a violated constraint, a Get that finds no row
ErrDB == "pq: constraint violated"
ErrNoRows == "sql: no rows in result set"

OPEN == "OPEN"
MERGED == "MERGED"

\* ---------------------------------------------------------------- queries
\* SELECT user_id FROM team_members WHERE team_name = t
MembersOf(t) == {u \in Users : <<t, u>> \in team_members}

\* SELECT team_name FROM team_members WHERE user_id = u  (all rows)
TeamsOf(u) == {t \in Teams : <<t, u>> \in team_members}

\* SELECT user_id FROM pr_reviewers WHERE pull_request_id = p, over a given table
ReviewersIn(revs, p) == {u \in Users : <<p, u>> \in revs}

ReviewersOf(p) == ReviewersIn(pr_reviewers, p)

\* users u JOIN team_members tm WHERE tm.team_name = t AND u.is_active = true,
\* over a given users table
ActiveMembers(us, t) == {u \in MembersOf(t) : u \in DOMAIN us /\ us[u].is_active}

\* (variant: the query without its is_active condition)
CreateEligibleAnyActivity(t, author) == {u \in MembersOf(t) : u # author}

\* the rows of CreatePR's reviewer query before LIMIT 2
CreateEligible(t, author) == {u \in ActiveMembers(users, t) : u # author}

Min(a, b) == IF a < b THEN a ELSE b

\* LIMIT n of a row set without ORDER BY: any n of the rows (all if fewer)
Limit(S, n) == {R \in SUBSET S : Cardinality(R) = Min(n, Cardinality(S))}

\* (variant: the replacement query with the condition u.user_id != author_id)
ReplacementRowsNotAuthor(us, revs, t, old, p) ==
    {u \in ActiveMembers(us, t) :
        u # old /\ u \notin ReviewersIn(revs, p) /\ u # prs[p].author_id}

\* the rows of the replacement query before LIMIT 1 (ReassignReviewer and
\* findReplacementReviewer run the same query)
ReplacementRows(us, revs, t, old, p) ==
    {u \in ActiveMembers(us, t) : u # old /\ u \notin ReviewersIn(revs, p)}

\* (variant: the new link is inserted and the old one stays)
ReplaceLinkKeepOld(revs, p, old, new) == revs \cup {<<p, new>>}

\* UPDATE pr_reviewers SET user_id = new WHERE pull_request_id = p AND user_id = old
ReplaceLink(revs, p, old, new) == (revs \ {<<p, old>>}) \cup {<<p, new>>}

\* GetPR: the prs row with the reviewers' users rows
GetPRIn(ps, revs, us, p) ==
    PRView(p, ps[p], {UserView(u, us[u]) : u \in ReviewersIn(revs, p) \cap DOMAIN us})

\* the record of a call: the method, its error, and of its other return values
\* the new reviewer id, the PR (GetPR's result) and the reassigned PR ids;
\* call keeps the arguments of a MassDeactivate call
Ret(op, err) ==
    [op |-> op, err |-> err, replaced_by |-> "", pr |-> Null, reassigned |-> <<>>,
     call |-> <<>>]

\* ------------------------------------------------------------------ Init
Init ==
    /\ users = <<>>
    /\ teams = {}
    /\ team_members = {}
    /\ prs = <<>>
    /\ pr_reviewers = {}
    /\ now = 0
    /\ last = Ret("init", OK)
    /\ inflight = [c \in Procs |-> Idle]

\* time passes
Tick ==
    /\ now < MaxTime
    /\ now' = now + 1
    /\ UNCHANGED <<store, last, inflight>>

\* ------------------------------------------------------------ CreateTeam
\* members: a function from the listed user ids to [username, is_active]
UpsertUsers(us, members) ==
    [u \in DOMAIN us \cup DOMAIN members |->
        IF u \in DOMAIN members THEN members[u] ELSE us[u]]

CreateTeam(name, members) ==
    IF name \in teams
    THEN /\ last' = Ret("CreateTeam", ErrTeamExists)
         /\ UNCHANGED <<store, now, inflight>>
    ELSE /\ teams' = teams \cup {name}
         /\ users' = UpsertUsers(users, members)
         /\ team_members' = team_members \cup {<<name, u>> : u \in DOMAIN members}
         /\ last' = Ret("CreateTeam", OK)
         /\ UNCHANGED <<prs, pr_reviewers, now, inflight>>

\* --------------------------------------------------------- SetUserActive
SetActiveIn(us, u, active) ==
    IF u \in DOMAIN us THEN [us EXCEPT ![u].is_active = active] ELSE us

SetUserActive(userID, active) ==
    /\ users' = SetActiveIn(users, userID, active)
    /\ last' = Ret("SetUserActive", IF userID \in DOMAIN users THEN OK ELSE ErrNoRows)
    /\ UNCHANGED <<teams, team_members, prs, pr_reviewers, now, inflight>>

\* -------------------------------------------------------------- CreatePR
\* (variant: the existence check never finds the row)
ExistsPRNever(id) == FALSE

\* SELECT pull_request_id FROM prs WHERE pull_request_id = id finds a row
ExistsPR(id) == id \in DOMAIN prs

\* INSERT INTO prs is refused: the primary key, or author_id REFERENCES users
InsertPRFails(id, author) == id \in DOMAIN prs \/ author \notin DOMAIN users

\* (variant: the query without LIMIT)
CreateReviewerRowsUnlimited(t, author) == {CreateEligible(t, author)}

\* the rows of the reviewer query: LIMIT 2 of the eligible rows
CreateReviewerRows(t, author) == Limit(CreateEligible(t, author), MaxReviewers)

\* the handler builds the row: status OPEN, created_at = time.Now()
CreatePR(id, title, author) ==
    IF ExistsPR(id)
    THEN /\ last' = Ret("CreatePR", ErrPRExists)
         /\ UNCHANGED <<store, now, inflight>>
    ELSE IF InsertPRFails(id, author)
    THEN /\ last' = Ret("CreatePR", ErrDB)
         /\ UNCHANGED <<store, now, inflight>>
    ELSE /\ prs' = [p \in DOMAIN prs \cup {id} |->
                      IF p = id
                      THEN PRRow(title, author, OPEN, now, Null)
                      ELSE prs[p]]
         /\ IF TeamsOf(author) = {}
            THEN /\ last' = Ret("CreatePR", ErrAuthorTeam)
                 /\ UNCHANGED pr_reviewers
            ELSE \E t \in TeamsOf(author) :
                 \E R \in CreateReviewerRows(t, author) :
                    /\ pr_reviewers' = pr_reviewers \cup {<<id, r>> : r \in R}
                    /\ last' = Ret("CreatePR", OK)
         /\ UNCHANGED <<users, teams, team_members, now, inflight>>

\* --------------------------------------------------------------- MergePR
\* (variants: the UPDATE runs whatever the status; the UPDATE sets the status
\* alone)
MergedRowAlways(row, t) == [row EXCEPT !.status = MERGED, !.merged_at = Some(t)]

MergedRowNoStamp(row, t) == [row EXCEPT !.status = MERGED]

\* the row after the conditional UPDATE prs SET status = 'MERGED', merged_at = t
MergedRow(row, t) ==
    IF row.status # MERGED
    THEN [row EXCEPT !.status = MERGED, !.merged_at = Some(t)]
    ELSE row

MergePR(id) ==
    IF id \notin DOMAIN prs
    THEN /\ last' = Ret("MergePR", ErrNotFound)
         /\ UNCHANGED <<store, now, inflight>>
    ELSE /\ prs' = [prs EXCEPT ![id] = MergedRow(prs[id], now)]
         /\ last' = [Ret("MergePR", OK) EXCEPT
                       !.pr = Some(GetPRIn(prs', pr_reviewers, users, id))]
         /\ UNCHANGED <<users, teams, team_members, pr_reviewers, now, inflight>>

\* ------------------------------------------------------ ReassignReviewer
\* (variant: the assignment check runs before the status check)
ReassignPrecheckAssignedFirst(prID, old) ==
    IF prID \notin DOMAIN prs THEN ErrNotFound
    ELSE IF old \notin ReviewersOf(prID) THEN ErrNotAssigned
    ELSE IF prs[prID].status = MERGED THEN ErrPRMerged
    ELSE IF TeamsOf(old) = {} THEN ErrNotFound
    ELSE OK

\* the error of the checks that precede the candidate query, OK if all pass
ReassignPrecheck(prID, old) ==
    IF prID \notin DOMAIN prs THEN ErrNotFound
    ELSE IF prs[prID].status = MERGED THEN ErrPRMerged
    ELSE IF old \notin ReviewersOf(prID) THEN ErrNotAssigned
    ELSE IF TeamsOf(old) = {} THEN ErrNotFound
    ELSE OK

\* (variant: the old link is deleted before the candidate query)
ReassignReviewerUnlinkFirst(prID, old) ==
    IF ReassignPrecheck(prID, old) # OK
    THEN /\ last' = Ret("ReassignReviewer", ReassignPrecheck(prID, old))
         /\ UNCHANGED <<store, now, inflight>>
    ELSE \E t \in TeamsOf(old) :
         LET rows == ReplacementRows(users, pr_reviewers, t, old, prID) IN
         IF rows = {}
         THEN /\ last' = Ret("ReassignReviewer", ErrNoCandidate)
              /\ pr_reviewers' = pr_reviewers \ {<<prID, old>>}
              /\ UNCHANGED <<users, teams, team_members, prs, now, inflight>>
         ELSE \E new \in rows :
              /\ pr_reviewers' = ReplaceLink(pr_reviewers, prID, old, new)
              /\ last' = [Ret("ReassignReviewer", OK) EXCEPT
                            !.replaced_by = new,
                            !.pr = Some(GetPRIn(prs, pr_reviewers', users, prID))]
              /\ UNCHANGED <<users, teams, team_members, prs, now, inflight>>

ReassignReviewer(prID, old) ==
    IF ReassignPrecheck(prID, old) # OK
    THEN /\ last' = Ret("ReassignReviewer", ReassignPrecheck(prID, old))
         /\ UNCHANGED <<store, now, inflight>>
    ELSE \E t \in TeamsOf(old) :
         LET rows == ReplacementRows(users, pr_reviewers, t, old, prID) IN
         IF rows = {}
         THEN /\ last' = Ret("ReassignReviewer", ErrNoCandidate)
              /\ UNCHANGED <<store, now, inflight>>
         ELSE \E new \in rows :
              /\ pr_reviewers' = ReplaceLink(pr_reviewers, prID, old, new)
              /\ last' = [Ret("ReassignReviewer", OK) EXCEPT
                            !.replaced_by = new,
                            !.pr = Some(GetPRIn(prs, pr_reviewers', users, prID))]
              /\ UNCHANGED <<users, teams, team_members, prs, now, inflight>>

\* -------------------------------------------------------- MassDeactivate
\* UPDATE users SET is_active = false WHERE user_id IN (members of team
\* [AND user_id NOT IN exclude])
\* (variant: the UPDATE without its NOT IN clause)
DeactivateTargetsAll(team, exclude) == MembersOf(team) \cap DOMAIN users

DeactivateTargets(team, exclude) == (MembersOf(team) \cap DOMAIN users) \ exclude

\* (variant: SET is_active = NOT is_active)
DeactivatedToggle(us, targets) ==
    [u \in DOMAIN us |-> IF u \in targets
                         THEN [us[u] EXCEPT !.is_active = ~us[u].is_active]
                         ELSE us[u]]

Deactivated(us, targets) ==
    [u \in DOMAIN us |-> IF u \in targets THEN [us[u] EXCEPT !.is_active = FALSE]
                         ELSE us[u]]

\* SELECT DISTINCT pr.pull_request_id, rev.user_id ... : OPEN PRs' reviewers
\* that are inactive members of the team
PrsWithInactiveReviewers(us, team) ==
    {link \in pr_reviewers :
        /\ prs[link[1]].status = OPEN
        /\ link[2] \in DOMAIN us /\ ~us[link[2]].is_active
        /\ link[2] \in MembersOf(team)}

\* the loop over the selected rows, in any order: every possible final
\* pr_reviewers table with the list of reassigned PR ids
RECURSIVE ReassignLoop(_, _, _, _)
ReassignLoop(us, todo, revs, out) ==
    IF todo = {} THEN {[reassigned |-> out, revs |-> revs]}
    ELSE UNION {
        UNION {
            LET rows == ReplacementRows(us, revs, t, link[2], link[1]) IN
            IF rows = {}
            THEN ReassignLoop(us, todo \ {link}, revs, out)
            ELSE UNION {ReassignLoop(us, todo \ {link},
                                     ReplaceLink(revs, link[1], link[2], new),
                                     Append(out, link[1])) : new \in rows}
            : t \in TeamsOf(link[2])}
        : link \in todo}

MassDeactivate(team, exclude) ==
    LET us == Deactivated(users, DeactivateTargets(team, exclude)) IN
    \E res \in ReassignLoop(us, PrsWithInactiveReviewers(us, team), pr_reviewers, <<>>) :
        /\ users' = us
        /\ pr_reviewers' = res.revs
        /\ last' = [Ret("MassDeactivate", OK) EXCEPT
                      !.reassigned = res.reassigned, !.call = <<team, exclude>>]
        /\ UNCHANGED <<teams, team_members, prs, now, inflight>>

\* ------------------------------------------------- statement by statement
\* The same methods, one action per SQL statement, for calls that run at the
\* same time on different connections.  A statement sees what is committed
\* (READ COMMITTED) and, inside a transaction, what that transaction wrote;
\* a write waits while another transaction holds the row it writes (or the
\* key it inserts) uncommitted.  The code between two statements runs with
\* the statement before it.  GetPR's three reads are one step.
Running(c, op, pc) == inflight[c].op = op /\ inflight[c].pc = pc

\* the call of connection c goes on with its record r / returns ret
Goto(c, r) == inflight' = [inflight EXCEPT ![c] = r] /\ UNCHANGED last

Return(c, ret) == inflight' = [inflight EXCEPT ![c] = Idle] /\ last' = ret

\* rows and keys held by an uncommitted transaction of another connection
UserLocked(c, u) == \E d \in Procs \ {c} : u \in inflight[d].locked

TeamLocked(c, name) ==
    \E d \in Procs \ {c} :
        /\ inflight[d].op = "CreateTeam"
        /\ inflight[d].pc \in {"members", "commit"}
        /\ inflight[d].id = name

LinkLocked(c, p, u) ==
    \E d \in Procs \ {c} : \E w \in inflight[d].wlinks :
        w[1] = p /\ (w[2] = u \/ w[3] = u)

\* pr_reviewers as a transaction that rewrote the links w sees it, and as it
\* is once that transaction has committed
TxLinks(revs, w) ==
    (revs \ {<<x[1], x[2]>> : x \in w}) \cup {<<x[1], x[3]>> : x \in w}

\* CreateTeam: Beginx and the SELECT that looks for the team
CreateTeamBegin(c, name, members) ==
    /\ inflight[c].op = "idle"
    /\ IF name \in teams
       THEN Return(c, Ret("CreateTeam", ErrTeamExists))
       ELSE Goto(c, Req("CreateTeam", "insert", name, members))
    /\ UNCHANGED <<store, now>>

\* (variant: INSERT INTO teams ... ON CONFLICT DO NOTHING)
CreateTeamInsertOnConflictNothing(c) ==
    /\ Running(c, "CreateTeam", "insert")
    /\ ~TeamLocked(c, inflight[c].id)
    /\ Goto(c, [inflight[c] EXCEPT !.pc = "members"])
    /\ UNCHANGED <<store, now>>

\* INSERT INTO teams: any error rolls back and returns ErrTeamExists
CreateTeamInsert(c) ==
    /\ Running(c, "CreateTeam", "insert")
    /\ ~TeamLocked(c, inflight[c].id)
    /\ IF inflight[c].id \in teams
       THEN Return(c, Ret("CreateTeam", ErrTeamExists))
       ELSE Goto(c, [inflight[c] EXCEPT !.pc = "members"])
    /\ UNCHANGED <<store, now>>

\* the loop over the members: the upsert of users and the INSERT INTO
\* team_members of each
CreateTeamMembers(c) ==
    /\ Running(c, "CreateTeam", "members")
    /\ \A u \in DOMAIN inflight[c].arg : ~UserLocked(c, u)
    /\ Goto(c, [inflight[c] EXCEPT !.pc = "commit",
                                   !.locked = DOMAIN inflight[c].arg])
    /\ UNCHANGED <<store, now>>

CreateTeamCommit(c) ==
    /\ Running(c, "CreateTeam", "commit")
    /\ teams' = teams \cup {inflight[c].id}
    /\ users' = UpsertUsers(users, inflight[c].arg)
    /\ team_members' =
          team_members \cup {<<inflight[c].id, u>> : u \in DOMAIN inflight[c].arg}
    /\ Return(c, Ret("CreateTeam", OK))
    /\ UNCHANGED <<prs, pr_reviewers, now>>

\* SetUserActive: its one write is the UPDATE
SetUserActiveCall(c, userID, active) ==
    /\ inflight[c].op = "idle"
    /\ ~UserLocked(c, userID)
    /\ SetUserActive(userID, active)

\* CreatePR: the SELECT that looks for the PR
CreatePRBegin(c, id, title, author) ==
    /\ inflight[c].op = "idle"
    /\ IF ExistsPR(id)
       THEN Return(c, Ret("CreatePR", ErrPRExists))
       ELSE Goto(c, Req("CreatePR", "insert", id, <<title, author>>))
    /\ UNCHANGED <<store, now>>

\* INSERT INTO prs
CreatePRInsert(c) ==
    LET id == inflight[c].id
        title == inflight[c].arg[1]
        author == inflight[c].arg[2] IN
    /\ Running(c, "CreatePR", "insert")
    /\ IF InsertPRFails(id, author)
       THEN /\ Return(c, Ret("CreatePR", ErrDB))
            /\ UNCHANGED <<store, now>>
       ELSE /\ prs' = [p \in DOMAIN prs \cup {id} |->
                         IF p = id
                         THEN PRRow(title, author, OPEN, now, Null)
                         ELSE prs[p]]
            /\ Goto(c, [inflight[c] EXCEPT !.pc = "team"])
            /\ UNCHANGED <<users, teams, team_members, pr_reviewers, now>>

\* SELECT team_name FROM team_members WHERE user_id = author
CreatePRTeam(c) ==
    /\ Running(c, "CreatePR", "team")
    /\ IF TeamsOf(inflight[c].arg[2]) = {}
       THEN Return(c, Ret("CreatePR", ErrAuthorTeam))
       ELSE \E t \in TeamsOf(inflight[c].arg[2]) :
               Goto(c, [inflight[c] EXCEPT !.pc = "select", !.team = t])
    /\ UNCHANGED <<store, now>>

\* the reviewer query; with no row the loop is empty and the call returns
CreatePRSelect(c) ==
    /\ Running(c, "CreatePR", "select")
    /\ \E R \in CreateReviewerRows(inflight[c].team, inflight[c].arg[2]) :
          IF R = {}
          THEN Return(c, Ret("CreatePR", OK))
          ELSE Goto(c, [inflight[c] EXCEPT !.pc = "link", !.todo = R])
    /\ UNCHANGED <<store, now>>

\* INSERT INTO pr_reviewers for the next row of the loop
CreatePRLink(c) ==
    /\ Running(c, "CreatePR", "link")
    /\ \E r \in inflight[c].todo :
          /\ ~LinkLocked(c, inflight[c].id, r)
          /\ IF <<inflight[c].id, r>> \in pr_reviewers
             THEN /\ Return(c, Ret("CreatePR", ErrDB))
                  /\ UNCHANGED pr_reviewers
             ELSE /\ pr_reviewers' = pr_reviewers \cup {<<inflight[c].id, r>>}
                  /\ IF inflight[c].todo = {r}
                     THEN Return(c, Ret("CreatePR", OK))
                     ELSE Goto(c, [inflight[c] EXCEPT !.todo = @ \ {r}])
    /\ UNCHANGED <<users, teams, team_members, prs, now>>

\* UPDATE prs SET status = 'MERGED', merged_at = t WHERE pull_request_id = id
SetMerged(row, t) == [row EXCEPT !.status = MERGED, !.merged_at = Some(t)]

\* MergePR: SELECT status
MergePRBegin(c, id) ==
    /\ inflight[c].op = "idle"
    /\ IF id \notin DOMAIN prs
       THEN Return(c, Ret("MergePR", ErrNotFound))
       ELSE Goto(c, Req("MergePR",
                        IF prs[id].status # MERGED THEN "update" ELSE "get",
                        id, ""))
    /\ UNCHANGED <<store, now>>

MergePRUpdate(c) ==
    /\ Running(c, "MergePR", "update")
    /\ prs' = [prs EXCEPT ![inflight[c].id] = SetMerged(@, now)]
    /\ Goto(c, [inflight[c] EXCEPT !.pc = "get"])
    /\ UNCHANGED <<users, teams, team_members, pr_reviewers, now>>

MergePRGet(c) ==
    /\ Running(c, "MergePR", "get")
    /\ Return(c, [Ret("MergePR", OK) EXCEPT
                    !.pr = Some(GetPRIn(prs, pr_reviewers, users, inflight[c].id))])
    /\ UNCHANGED <<store, now>>

\* ReassignReviewer: SELECT status
ReassignReviewerBegin(c, prID, old) ==
    /\ inflight[c].op = "idle"
    /\ IF prID \notin DOMAIN prs
       THEN Return(c, Ret("ReassignReviewer", ErrNotFound))
       ELSE IF prs[prID].status = MERGED
       THEN Return(c, Ret("ReassignReviewer", ErrPRMerged))
       ELSE Goto(c, Req("ReassignReviewer", "assigned", prID, old))
    /\ UNCHANGED <<store, now>>

\* SELECT EXISTS(... pr_reviewers ...)
ReassignReviewerAssigned(c) ==
    /\ Running(c, "ReassignReviewer", "assigned")
    /\ IF inflight[c].arg \notin ReviewersOf(inflight[c].id)
       THEN Return(c, Ret("ReassignReviewer", ErrNotAssigned))
       ELSE Goto(c, [inflight[c] EXCEPT !.pc = "team"])
    /\ UNCHANGED <<store, now>>

\* SELECT team_name FROM team_members WHERE user_id = old
ReassignReviewerTeam(c) ==
    /\ Running(c, "ReassignReviewer", "team")
    /\ IF TeamsOf(inflight[c].arg) = {}
       THEN Return(c, Ret("ReassignReviewer", ErrNotFound))
       ELSE \E t \in TeamsOf(inflight[c].arg) :
               Goto(c, [inflight[c] EXCEPT !.pc = "find", !.team = t])
    /\ UNCHANGED <<store, now>>

\* the replacement query
ReassignReviewerFind(c) ==
    LET prID == inflight[c].id
        old == inflight[c].arg
        rows == ReplacementRows(users, pr_reviewers, inflight[c].team, old, prID) IN
    /\ Running(c, "ReassignReviewer", "find")
    /\ IF rows = {}
       THEN Return(c, Ret("ReassignReviewer", ErrNoCandidate))
       ELSE \E new \in rows :
               Goto(c, [inflight[c] EXCEPT !.pc = "update",
                                          !.pick = <<prID, old, new>>])
    /\ UNCHANGED <<store, now>>

\* UPDATE pr_reviewers SET user_id = new WHERE ... user_id = old: no row to
\* update is no error, a row (prID, new) that exists by now is one
ReassignReviewerUpdate(c) ==
    LET prID == inflight[c].id
        old == inflight[c].arg
        new == inflight[c].pick[3] IN
    /\ Running(c, "ReassignReviewer", "update")
    /\ ~LinkLocked(c, prID, old) /\ ~LinkLocked(c, prID, new)
    /\ IF <<prID, old>> \in pr_reviewers /\ <<prID, new>> \in pr_reviewers
       THEN /\ Return(c, Ret("ReassignReviewer", ErrDB))
            /\ UNCHANGED pr_reviewers
       ELSE /\ pr_reviewers' = IF <<prID, old>> \in pr_reviewers
                               THEN ReplaceLink(pr_reviewers, prID, old, new)
                               ELSE pr_reviewers
            /\ Goto(c, [inflight[c] EXCEPT !.pc = "get"])
    /\ UNCHANGED <<users, teams, team_members, prs, now>>

ReassignReviewerGet(c) ==
    /\ Running(c, "ReassignReviewer", "get")
    /\ Return(c, [Ret("ReassignReviewer", OK) EXCEPT
                    !.replaced_by = inflight[c].pick[3],
                    !.pr = Some(GetPRIn(prs, pr_reviewers, users, inflight[c].id))])
    /\ UNCHANGED <<store, now>>

\* (variant: the UPDATE of users runs outside the transaction)
MassDeactivateBeginAutocommit(c, team, exclude) ==
    /\ inflight[c].op = "idle"
    /\ \A u \in DeactivateTargets(team, exclude) : ~UserLocked(c, u)
    /\ users' = Deactivated(users, DeactivateTargets(team, exclude))
    /\ Goto(c, [Req("MassDeactivate", "select", team, exclude) EXCEPT
                  !.locked = DeactivateTargets(team, exclude)])
    /\ UNCHANGED <<teams, team_members, prs, pr_reviewers, now>>

\* MassDeactivate: Beginx and the UPDATE of users
MassDeactivateBegin(c, team, exclude) ==
    /\ inflight[c].op = "idle"
    /\ \A u \in DeactivateTargets(team, exclude) : ~UserLocked(c, u)
    /\ Goto(c, [Req("MassDeactivate", "select", team, exclude) EXCEPT
                  !.locked = DeactivateTargets(team, exclude)])
    /\ UNCHANGED <<store, now>>

\* SELECT DISTINCT ...: the rows to loop over
MassDeactivateSelect(c) ==
    LET rows == PrsWithInactiveReviewers(Deactivated(users, inflight[c].locked),
                                         inflight[c].id) IN
    /\ Running(c, "MassDeactivate", "select")
    /\ Goto(c, [inflight[c] EXCEPT !.todo = rows,
                   !.pc = IF rows = {} THEN "commit" ELSE "find"])
    /\ UNCHANGED <<store, now>>

\* findReplacementReviewer for the next row of the loop; an error (no team,
\* no candidate, a transaction that has failed) skips the row
MassDeactivateFind(c) ==
    /\ Running(c, "MassDeactivate", "find")
    /\ \E link \in inflight[c].todo :
         LET skip == [inflight[c] EXCEPT
                        !.todo = @ \ {link},
                        !.pc = IF inflight[c].todo = {link} THEN "commit" ELSE "find"] IN
         IF inflight[c].failed \/ TeamsOf(link[2]) = {}
         THEN Goto(c, skip)
         ELSE \E t \in TeamsOf(link[2]) :
              LET rows == ReplacementRows(Deactivated(users, inflight[c].locked),
                                          TxLinks(pr_reviewers, inflight[c].wlinks),
                                          t, link[2], link[1]) IN
              IF rows = {}
              THEN Goto(c, skip)
              ELSE \E new \in rows :
                      Goto(c, [inflight[c] EXCEPT
                                 !.pc = "update",
                                 !.pick = <<link[1], link[2], new>>])
    /\ UNCHANGED <<store, now>>

\* the UPDATE of pr_reviewers inside the transaction: without error the PR
\* id is appended to reassignedPRs (also when no row was updated); a row
\* (pr, new) that exists by now is an error, after which the transaction has
\* failed
MassDeactivateUpdate(c) ==
    LET w == inflight[c].pick
        rest == inflight[c].todo \ {<<w[1], w[2]>>}
        next == IF rest = {} THEN "commit" ELSE "find" IN
    /\ Running(c, "MassDeactivate", "update")
    /\ ~LinkLocked(c, w[1], w[2]) /\ ~LinkLocked(c, w[1], w[3])
    /\ IF <<w[1], w[2]>> \in pr_reviewers /\ <<w[1], w[3]>> \in pr_reviewers
       THEN Goto(c, [inflight[c] EXCEPT !.pc = next, !.pick = <<>>, !.todo = rest,
                                       !.failed = TRUE])
       ELSE Goto(c, [inflight[c] EXCEPT
                       !.pc = next, !.pick = <<>>, !.todo = rest,
                       !.wlinks = IF <<w[1], w[2]>> \in pr_reviewers
                                  THEN @ \cup {w} ELSE @,
                       !.out = Append(@, w[1])])
    /\ UNCHANGED <<store, now>>

\* Commit: of a failed transaction it is a rollback and an error
MassDeactivateCommit(c) ==
    /\ Running(c, "MassDeactivate", "commit")
    /\ IF inflight[c].failed
       THEN /\ Return(c, [Ret("MassDeactivate", ErrDB) EXCEPT
                            !.call = <<inflight[c].id, inflight[c].arg>>])
            /\ UNCHANGED <<users, pr_reviewers>>
       ELSE /\ users' = Deactivated(users, inflight[c].locked)
            /\ pr_reviewers' = TxLinks(pr_reviewers, inflight[c].wlinks)
            /\ Return(c, [Ret("MassDeactivate", OK) EXCEPT
                            !.reassigned = inflight[c].out,
                            !.call = <<inflight[c].id, inflight[c].arg>>])
    /\ UNCHANGED <<teams, team_members, prs, now>>

\* -------------------------------------------------------------- handlers
\* the HTTP status of an error response
getHTTPStatusCode(errorCode) ==
    CASE errorCode \in {"TEAM_EXISTS", "PR_EXISTS"} -> 409
      [] errorCode = "NOT_FOUND" -> 404
      [] errorCode \in {"PR_MERGED", "NOT_ASSIGNED", "NO_CANDIDATE"} -> 409
      [] OTHER -> 400

\* respondError(w, code, errorCode, message): the status written is
\* getHTTPStatusCode(code), the body carries errorCode
respondError(code, errorCode) ==
    [status |-> getHTTPStatusCode(code), code |-> errorCode]

respondJSON(code) == [status |-> code, code |-> ""]

\* what each handler answers, given the error its store call returned
createTeam(err) ==
    IF err = OK THEN respondJSON(201)
    ELSE IF err = "TEAM_EXISTS" THEN respondError("409", "TEAM_EXISTS")
    ELSE respondError("400", "BAD_REQUEST")

setUserActive(err) ==
    IF err = OK THEN respondJSON(200) ELSE respondError("404", "NOT_FOUND")

createPR(err) ==
    IF err = OK THEN respondJSON(201)
    ELSE IF err = "PR_EXISTS" THEN respondError("409", "PR_EXISTS")
    ELSE respondError("404", "NOT_FOUND")

mergePR(err) ==
    IF err = OK THEN respondJSON(200) ELSE respondError("404", "NOT_FOUND")

reassignReviewer(err) ==
    IF err = OK THEN respondJSON(200)
    ELSE CASE err = "NOT_FOUND" -> respondError("404", "NOT_FOUND")
           [] err = "PR_MERGED" -> respondError("409", "PR_MERGED")
           [] err = "NOT_ASSIGNED" -> respondError("409", "NOT_ASSIGNED")
           [] err = "NO_CANDIDATE" -> respondError("409", "NO_CANDIDATE")
           [] OTHER -> respondError("409", "CONFLICT")

\* a request that does not decode or lacks a field
badRequest == respondError("400", "BAD_REQUEST")

\* the answer to the request whose store call is recorded in r; the routes
\* registered are those of the five handlers
Answer(r) ==
    CASE r.op = "CreateTeam" -> createTeam(r.err)
      [] r.op = "SetUserActive" -> setUserActive(r.err)
      [] r.op = "CreatePR" -> createPR(r.err)
      [] r.op = "MergePR" -> mergePR(r.err)
      [] r.op = "ReassignReviewer" -> reassignReviewer(r.err)
      [] OTHER -> respondJSON(200)

\* the other handlers: getTeam answers any store error with NOT_FOUND,
\* listPRsAssignedTo with INTERNAL_ERROR; /health calls no store
getTeam(err) ==
    IF err = OK THEN respondJSON(200) ELSE respondError("404", "NOT_FOUND")

listPRsAssignedTo(err) ==
    IF err = OK THEN respondJSON(200) ELSE respondError("500", "INTERNAL_ERROR")

health == respondJSON(200)

\* the routes of the router: method, path (its segments), handler
RegisterRoutes ==
    {<<"POST", <<"team", "add">>, "createTeam">>,
     <<"GET", <<"team", "get">>, "getTeam">>,
     <<"POST", <<"users", "setIsActive">>, "setUserActive">>,
     <<"POST", <<"pullRequest", "create">>, "createPR">>,
     <<"POST", <<"pullRequest", "merge">>, "mergePR">>,
     <<"POST", <<"pullRequest", "reassign">>, "reassignReviewer">>,
     <<"GET", <<"users", "getReview">>, "listPRsAssignedTo">>,
     <<"GET", <<"health">>, "health">>}

\* the router's match: the handler of the route with this method and path;
\* a path registered under another method only is answered 405, a path not
\* registered 404, by the router itself
Match(method, path) ==
    IF \E r \in RegisterRoutes : r[1] = method /\ r[2] = path
    THEN (CHOOSE r \in RegisterRoutes : r[1] = method /\ r[2] = path)[3]
    ELSE IF \E r \in RegisterRoutes : r[2] = path
    THEN "MethodNotAllowed"
    ELSE "NotFound"

\* the answer to a well-formed request, err being what the store call of its
\* handler returns (no store is called when no route matches)
ServeHTTP(method, path, err) ==
    LET h == Match(method, path) IN
    CASE h = "createTeam" -> createTeam(err)
      [] h = "getTeam" -> getTeam(err)
      [] h = "setUserActive" -> setUserActive(err)
      [] h = "createPR" -> createPR(err)
      [] h = "mergePR" -> mergePR(err)
      [] h = "reassignReviewer" -> reassignReviewer(err)
      [] h = "listPRsAssignedTo" -> listPRsAssignedTo(err)
      [] h = "health" -> health
      [] h = "MethodNotAllowed" -> respondJSON(405)
      [] OTHER -> respondJSON(404)

\* ------------------------------------------------------------------ Next
\* The requests served, over a universe of inputs: rosters[t] are the member
\* lists a request to create team t may carry, ids the PR ids, authors the
\* author ids of create requests, people the other user ids requests name.
\* A member's username is the team's name, a PR's title is fixed by its
\* author.
Titles == {"A", "B"}
TitleBy(author) == IF author \in {"u1", "u3"} THEN "A" ELSE "B"

NextOver(rosters, ids, authors, people) ==
    \/ \E name \in Teams : \E S \in rosters[name] : \E act \in [S -> BOOLEAN] :
            CreateTeam(name, [u \in S |-> UserRow(name, act[u])])
    \/ \E u \in people, a \in BOOLEAN : SetUserActive(u, a)
    \/ \E id \in ids, author \in authors : CreatePR(id, TitleBy(author), author)
    \/ \E id \in ids : MergePR(id)
    \/ \E id \in ids, old \in people : ReassignReviewer(id, old)
    \/ \E t \in Teams, X \in SUBSET people : MassDeactivate(t, X)

\* three universes of requests
Staff == {"u1", "u2", "u3"}

\* two overlapping teams of three people, one PR, the clock running
Rosters == [backend |-> {Staff}, frontend |-> {{}, {"u2", "u3"}}]
Next == Tick \/ NextOver(Rosters, {"pr1"}, Staff, Staff)
Spec == Init /\ [][Next]_vars

\* one team of three, two PRs
RostersTwoPRs == [backend |-> {Staff}, frontend |-> {{}}]
NextTwoPRs == NextOver(RostersTwoPRs, PRIds, {"u1", "u2"}, {"u2", "u3"})
SpecTwoPRs == Init /\ [][NextTwoPRs]_vars

\* one team of four, one PR
RostersWide == [backend |-> {Users}, frontend |-> {{}}]
NextWide == NextOver(RostersWide, {"pr1"}, {"u1"}, Users)
SpecWide == Init /\ [][NextWide]_vars

\* calls that overlap: two connections, one team of three, one PR
ActiveOrNot == {[u \in Staff |-> UserRow("backend", b)] : b \in BOOLEAN}

NextConc ==
    \E c \in Procs :
        \/ \E members \in ActiveOrNot : CreateTeamBegin(c, "backend", members)
        \/ CreateTeamInsert(c)
        \/ CreateTeamMembers(c)
        \/ CreateTeamCommit(c)
        \/ \E a \in BOOLEAN : SetUserActiveCall(c, "u3", a)
        \/ CreatePRBegin(c, "pr1", TitleBy("u1"), "u1")
        \/ CreatePRInsert(c)
        \/ CreatePRTeam(c)
        \/ CreatePRSelect(c)
        \/ CreatePRLink(c)
        \/ MergePRBegin(c, "pr1")
        \/ MergePRUpdate(c)
        \/ MergePRGet(c)
        \/ \E old \in {"u2", "u3"} : ReassignReviewerBegin(c, "pr1", old)
        \/ ReassignReviewerAssigned(c)
        \/ ReassignReviewerTeam(c)
        \/ ReassignReviewerFind(c)
        \/ ReassignReviewerUpdate(c)
        \/ ReassignReviewerGet(c)
        \/ \E X \in {{"u1"}, {"u1", "u2"}} : MassDeactivateBegin(c, "backend", X)
        \/ MassDeactivateSelect(c)
        \/ MassDeactivateFind(c)
        \/ MassDeactivateUpdate(c)
        \/ MassDeactivateCommit(c)

SpecConc == Init /\ [][NextConc]_vars

\* two requests of the same method that overlap: a call starts only while
\* the other connection is idle or in a call of the same method; the clock
\* runs, and the PR is created by either of two authors
OnlyOverlaps(c, op) == \A d \in Procs \ {c} : inflight[d].op \in {"idle", op}

NextPairs ==
    \/ Tick
    \/ \E c \in Procs :
        \/ /\ OnlyOverlaps(c, "CreateTeam")
           /\ \E members \in ActiveOrNot : CreateTeamBegin(c, "backend", members)
        \/ CreateTeamInsert(c)
        \/ CreateTeamMembers(c)
        \/ CreateTeamCommit(c)
        \/ /\ OnlyOverlaps(c, "SetUserActive")
           /\ \E a \in BOOLEAN : SetUserActiveCall(c, "u3", a)
        \/ /\ OnlyOverlaps(c, "CreatePR")
           /\ \E author \in {"u1", "u2"} :
                 CreatePRBegin(c, "pr1", TitleBy(author), author)
        \/ CreatePRInsert(c)
        \/ CreatePRTeam(c)
        \/ CreatePRSelect(c)
        \/ CreatePRLink(c)
        \/ OnlyOverlaps(c, "MergePR") /\ MergePRBegin(c, "pr1")
        \/ MergePRUpdate(c)
        \/ MergePRGet(c)
        \/ /\ OnlyOverlaps(c, "ReassignReviewer")
           /\ \E old \in {"u2", "u3"} : ReassignReviewerBegin(c, "pr1", old)
        \/ ReassignReviewerAssigned(c)
        \/ ReassignReviewerTeam(c)
        \/ ReassignReviewerFind(c)
        \/ ReassignReviewerUpdate(c)
        \/ ReassignReviewerGet(c)

SpecPairs == Init /\ [][NextPairs]_vars

\* ================================================================ claims
\* C1: in every reachable state no PR's reviewer set contains that PR's
\* author.
C1_AuthorNeverReviewer ==
    \A p \in DOMAIN prs : prs[p].author_id \notin ReviewersOf(p)

\* old is a reviewer of the OPEN PR p and the only candidate row of each of
\* old's teams is the author of p
OnlyAuthorLeft(p, old) ==
    /\ p \in DOMAIN prs /\ prs[p].status = OPEN /\ old \in ReviewersOf(p)
    /\ TeamsOf(old) # {}
    /\ \A t \in TeamsOf(old) :
         ReplacementRows(users, pr_reviewers, t, old, p) = {prs[p].author_id}

\* C2: ReassignReviewer(pr, old) on an OPEN PR where old is a reviewer and the
\* only candidate row of old's team is the PR's author fails with NoCandidate
\* and leaves the reviewer set unchanged.
C2_AuthorIsNoCandidate ==
    [][last'.op = "ReassignReviewer" =>
       \A p \in PRIds, old \in Users :
         (OnlyAuthorLeft(p, old) /\ ReassignReviewer(p, old)) =>
            /\ last'.err = ErrNoCandidate
            /\ pr_reviewers' = pr_reviewers]_vars

\* the members of team t that are active and are not a
EligibleFor(t, a) ==
    {u \in Users : <<t, u>> \in team_members /\ u # a /\ users[u].is_active}

C4_DuplicateCreateChangesNothing ==
    [][last'.op = "CreatePR" =>
       \A id \in PRIds, a \in Users, title \in Titles :
         (id \in DOMAIN prs /\ CreatePR(id, title, a)) =>
            /\ last'.err = ErrPRExists
            /\ store' = store]_vars

\* a create request was refused with PRExists while two PRs with different
\* authors exist, one of them merged and with reviewers
C4_Witness ==
    /\ last.op = "CreatePR" /\ last.err = ErrPRExists
    /\ DOMAIN prs = PRIds
    /\ prs["pr1"].author_id # prs["pr2"].author_id
    /\ \E p \in PRIds : prs[p].status = MERGED /\ ReviewersOf(p) # {}

\* the candidates to replace old on p: active, in a team of old's, not old,
\* not a reviewer of p
CandidatesFor(p, old) ==
    {u \in Users :
        /\ \E t \in Teams : <<t, old>> \in team_members /\ <<t, u>> \in team_members
        /\ users[u].is_active
        /\ u # old
        /\ <<p, u>> \notin pr_reviewers}

\* C5: ReassignReviewer reports the first failing precondition in the order
\* PR unknown -> NotFound, PR MERGED -> PRMerged, old not a reviewer ->
\* NotAssigned, no candidate -> NoCandidate; it succeeds only when all pass.
C5_ReassignErrorOrder ==
    [][last'.op = "ReassignReviewer" =>
       \A p \in PRIds, old \in Users :
         ReassignReviewer(p, old) =>
            /\ p \notin DOMAIN prs => last'.err = ErrNotFound
            /\ (p \in DOMAIN prs /\ prs[p].status = MERGED) => last'.err = ErrPRMerged
            /\ (/\ p \in DOMAIN prs /\ prs[p].status # MERGED
                /\ <<p, old>> \notin pr_reviewers) => last'.err = ErrNotAssigned
            /\ (/\ p \in DOMAIN prs /\ prs[p].status # MERGED
                /\ <<p, old>> \in pr_reviewers
                /\ CandidatesFor(p, old) = {}) => last'.err = ErrNoCandidate
            /\ last'.err = OK =>
                 /\ p \in DOMAIN prs /\ prs[p].status # MERGED
                 /\ <<p, old>> \in pr_reviewers
                 /\ CandidatesFor(p, old) # {}]_vars

\* a reassignment on a MERGED PR that has no reviewer at all (so the old id
\* is not assigned) was refused with PRMerged
C5_Witness ==
    /\ last.op = "ReassignReviewer" /\ last.err = ErrPRMerged
    /\ \A p \in DOMAIN prs : prs[p].status = MERGED /\ ReviewersOf(p) = {}

\* C6: every ReassignReviewer call that fails leaves the state unchanged.
C6_FailedReassignChangesNothing ==
    [][last'.op = "ReassignReviewer" =>
       \A p \in PRIds, old \in Users :
         (ReassignReviewer(p, old) /\ last'.err # OK) => store' = store]_vars

\* a reassignment of an assigned reviewer of an OPEN PR failed with NoCandidate
C6_Witness ==
    /\ last.op = "ReassignReviewer" /\ last.err = ErrNoCandidate
    /\ \E p \in DOMAIN prs : prs[p].status = OPEN /\ ReviewersOf(p) # {}

\* C7: after a successful ReassignReviewer(pr, old) returning new, the PR has
\* as many reviewers as before, old is not one of them, new is one and was
\* not before, the other reviewers of the PR are the same, and the reviewer
\* sets of the other PRs are unchanged.
C7_ReassignReplacesOne ==
    [][last'.op = "ReassignReviewer" =>
       \A p \in PRIds, old \in Users :
         (ReassignReviewer(p, old) /\ last'.err = OK) =>
            LET new == last'.replaced_by IN
            /\ Cardinality(ReviewersOf(p)') = Cardinality(ReviewersOf(p))
            /\ old \notin ReviewersOf(p)'
            /\ new \in ReviewersOf(p)'
            /\ new \notin ReviewersOf(p)
            /\ ReviewersOf(p)' \ {new} = ReviewersOf(p) \ {old}
            /\ \A q \in PRIds \ {p} : ReviewersOf(q)' = ReviewersOf(q)]_vars

\* a reviewer of a PR with two reviewers was just replaced while the other PR
\* has reviewers too
C7_Witness ==
    /\ last.op = "ReassignReviewer" /\ last.err = OK
    /\ \E p \in DOMAIN prs :
         /\ last.replaced_by \in ReviewersOf(p)
         /\ Cardinality(ReviewersOf(p)) = 2
         /\ \E q \in DOMAIN prs \ {p} : ReviewersOf(q) # {}

\* C8: MergePR of an already MERGED PR changes nothing and returns the PR with
\* status MERGED and the merged_at of the first merge (the same value the
\* preceding merge of that PR returned); MergePR of an unknown id fails with
\* NotFound and changes nothing.
C8_MergeIdempotent ==
    [][last'.op = "MergePR" =>
       \A id \in PRIds :
         MergePR(id) =>
            /\ id \notin DOMAIN prs => (last'.err = ErrNotFound /\ store' = store)
            /\ (id \in DOMAIN prs /\ prs[id].status = MERGED) =>
                 /\ last'.err = OK
                 /\ store' = store
                 /\ last'.pr = Some(GetPRIn(prs, pr_reviewers, users, id))
                 /\ last'.pr[1].status = MERGED
                 /\ last'.pr[1].merged_at = prs[id].merged_at
            /\ (/\ last.op = "MergePR" /\ last.err = OK
                /\ last.pr[1].id = id) => last'.pr = last.pr]_vars

\* a merge returned a PR merged at time 0 and the clock has moved on: a
\* second merge of it now returns the same
C8_Witness ==
    /\ last.op = "MergePR" /\ last.err = OK
    /\ last.pr[1].status = MERGED /\ last.pr[1].merged_at = Some(0)
    /\ now = 1

\* C9: in every reachable state a PR's merged_at is non-null if and only if
\* its status is MERGED.
C9_MergedAtIffMerged ==
    \A p \in DOMAIN prs : (prs[p].merged_at # Null) <=> (prs[p].status = MERGED)

\* a PR created at time 0 was merged at time 1
C9_Witness ==
    \E p \in DOMAIN prs :
        /\ prs[p].status = MERGED
        /\ prs[p].created_at = 0 /\ prs[p].merged_at = Some(1)

\* C10: in every reachable state every PR has at most 2 reviewers (a reviewer
\* link being a row keyed by PR and user, no user is linked twice to one PR).
C10_AtMostTwoReviewers ==
    \A p \in DOMAIN prs : Cardinality(ReviewersOf(p)) <= 2

\* a MassDeactivate just replaced both reviewers of one PR
C10_Witness ==
    /\ last.op = "MassDeactivate"
    /\ last.reassigned = <<"pr1", "pr1">>
    /\ Cardinality(ReviewersOf("pr1")) = 2

\* C11: once a PR is MERGED its reviewer set never changes again, calls that
\* overlap included: no step taken in a state where a PR is MERGED changes
\* that PR's reviewer links.
C11_MergedReviewersFrozen ==
    [][\A p \in DOMAIN prs :
         prs[p].status = MERGED => ReviewersOf(p)' = ReviewersOf(p)]_vars

\* C12: CreatePR is all-or-nothing: a call whose author belongs to no team
\* fails with AuthorTeamNotFound; a call that fails has inserted no PR row
\* and no reviewer link; and in no state is a PR row visible while reviewer
\* links of its CreatePR call are still to be inserted.
C12_CreatePRAllOrNothing ==
    [][\A c \in Procs :
         /\ (/\ inflight[c].op = "CreatePR" /\ inflight'[c].op = "idle"
             /\ TeamsOf(inflight[c].arg[2]) = {}) => last'.err = ErrAuthorTeam
         /\ (/\ inflight[c].op = "CreatePR" /\ inflight'[c].op = "idle"
             /\ last'.err # OK) => inflight[c].pc = "insert"
         /\ ~(inflight'[c].op = "CreatePR" /\ inflight'[c].pc = "link")]_vars

\* C13: CreateTeam with a name that exists fails with TeamExists, and no
\* statement of a CreateTeam call that ends so changes a table; a call
\* commits only a name that does not exist yet, so a name is created at most
\* once, also when two calls for the same name overlap.
C13_TeamCreatedOnce ==
    [][\A c \in Procs :
         /\ (inflight[c].op = "idle" /\ last'.op = "CreateTeam") =>
               \A name \in Teams, members \in ActiveOrNot :
                 CreateTeamBegin(c, name, members) =>
                    /\ store' = store
                    /\ name \in teams =>
                          last'.err = ErrTeamExists /\ inflight'[c].op = "idle"
         /\ CreateTeamInsert(c) =>
               /\ store' = store
               /\ inflight[c].id \in teams =>
                     /\ inflight'[c].op = "idle"
                     /\ last'.op = "CreateTeam" /\ last'.err = ErrTeamExists
         /\ CreateTeamMembers(c) => store' = store
         /\ CreateTeamCommit(c) =>
               inflight[c].id \notin teams /\ last'.err = OK]_vars

\* one connection has just committed the team while the other, which has
\* passed its check for the same name and carries other member values, is
\* about to run its INSERT
C13_Witness ==
    /\ last.op = "CreateTeam" /\ last.err = OK
    /\ \E c \in Procs :
         /\ Running(c, "CreateTeam", "insert")
         /\ inflight[c].id \in teams
         /\ \E u \in DOMAIN users : users[u] # inflight[c].arg[u]

\* C14: a user's team membership never changes once established: in every
\* reachable state each user is a member of at most one team, and no step adds
\* a user that has a team to another team or removes them from their team.
C14_MembershipNeverChanges ==
    [][/\ \A u \in Users : Cardinality(TeamsOf(u)') <= 1
       /\ \A u \in Users : TeamsOf(u) # {} => TeamsOf(u)' = TeamsOf(u)]_vars

\* C15: after MassDeactivate(T, X) succeeds every member of T that is not in
\* X is inactive, and every other user (a member of T listed in X, a user
\* that is not a member of T) has the activity flag it had before the call.
C15_MassDeactivateFrame ==
    [][last'.op = "MassDeactivate" =>
       LET T == last'.call[1]
           X == last'.call[2] IN
         (MassDeactivate(T, X) /\ last'.err = OK) =>
            /\ DOMAIN users' = DOMAIN users
            /\ \A u \in DOMAIN users :
                 IF <<T, u>> \in team_members /\ u \notin X
                 THEN ~users'[u].is_active
                 ELSE users'[u].is_active = users[u].is_active]_vars

\* the last call was MassDeactivate(T, X) and now T has an active member that
\* is in X and an inactive member that is not, and a user that is not a
\* member of T is active
C15_Witness ==
    /\ last.op = "MassDeactivate" /\ last.err = OK
    /\ LET T == last.call[1]
           X == last.call[2] IN
       /\ \E u \in MembersOf(T) \cap X : users[u].is_active
       /\ \E u \in MembersOf(T) \ X : ~users[u].is_active
       /\ \E u \in DOMAIN users \ MembersOf(T) : users[u].is_active

\* C16: MassDeactivate(T, X) called right after MassDeactivate(T, X) leaves
\* every user's activity flag as the first call left it.
C16_MassDeactivateTwice ==
    [][(/\ last'.op = "MassDeactivate"
        /\ last.op = "MassDeactivate"
        /\ MassDeactivate(last.call[1], last.call[2])) =>
          /\ DOMAIN users' = DOMAIN users
          /\ \A u \in DOMAIN users :
               users'[u].is_active = users[u].is_active]_vars

\* the last call was a MassDeactivate(T, X) that replaced a reviewer, and T
\* has an active member in X and an inactive member outside X: the state in
\* which the same call is made again
C16_Witness ==
    /\ last.op = "MassDeactivate" /\ last.err = OK
    /\ last.reassigned # <<>>
    /\ LET T == last.call[1]
           X == last.call[2] IN
       /\ \E u \in MembersOf(T) \cap X : users[u].is_active
       /\ \E u \in MembersOf(T) \ X : ~users[u].is_active

\* C17: MassDeactivate(T, X) succeeds whether or not every affected PR has a
\* replacement candidate, and after it an OPEN PR has an inactive reviewer r
\* that is a member of T only if no user is a candidate for r on that PR:
\* active, in r's team (the one the lookup returned, when r has several),
\* different from r and not a reviewer of that PR.
C17_InactiveKeptOnlyWithoutCandidate ==
    [][last'.op = "MassDeactivate" =>
       LET T == last'.call[1]
           X == last'.call[2] IN
         MassDeactivate(T, X) =>
            /\ last'.err = OK
            /\ \A p \in DOMAIN prs, r \in Users :
                 (/\ prs[p].status = OPEN
                  /\ <<p, r>> \in pr_reviewers'
                  /\ <<T, r>> \in team_members
                  /\ ~users'[r].is_active) =>
                    \E t \in Teams :
                       /\ <<t, r>> \in team_members
                       /\ {u \in Users :
                             /\ <<t, u>> \in team_members
                             /\ users'[u].is_active
                             /\ u # r
                             /\ <<p, u>> \notin pr_reviewers'} = {}]_vars

\* a MassDeactivate replaced one reviewer of an OPEN PR and left the PR with
\* another reviewer that is an inactive member of the team
C17_Witness ==
    /\ last.op = "MassDeactivate" /\ last.err = OK
    /\ Len(last.reassigned) = 1
    /\ \E p \in DOMAIN prs, r \in MembersOf(last.call[1]) :
         /\ prs[p].status = OPEN
         /\ p = last.reassigned[1]
         /\ r \in ReviewersOf(p)
         /\ ~users[r].is_active

\* C18: MassDeactivate is atomic: no statement of the call before its commit
\* changes what other connections see; the commit makes every deactivation
\* and every replacement of the call visible in one step and changes nothing
\* else; a call that fails leaves the tables as they are.
C18_MassDeactivateAtomic ==
    [][\A c \in Procs :
         /\ (inflight[c].op = "idle" /\ inflight'[c].op = "MassDeactivate") =>
               (MassDeactivateBegin(c, inflight'[c].id, inflight'[c].arg) =>
                   store' = store)
         /\ MassDeactivateSelect(c) => store' = store
         /\ MassDeactivateFind(c) => store' = store
         /\ MassDeactivateUpdate(c) => store' = store
         /\ MassDeactivateCommit(c) =>
               IF last'.err = OK
               THEN /\ DOMAIN users' = DOMAIN users
                    /\ \A u \in DOMAIN users :
                          users'[u] = IF u \in inflight[c].locked
                                      THEN [users[u] EXCEPT !.is_active = FALSE]
                                      ELSE users[u]
                    /\ \A w \in inflight[c].wlinks :
                          /\ <<w[1], w[2]>> \notin pr_reviewers'
                          /\ <<w[1], w[3]>> \in pr_reviewers'
                    /\ \A l \in (pr_reviewers' \ pr_reviewers)
                                 \cup (pr_reviewers \ pr_reviewers') :
                          \E w \in inflight[c].wlinks :
                             l = <<w[1], w[2]>> \/ l = <<w[1], w[3]>>
                    /\ <<teams', team_members', prs'>> = <<teams, team_members, prs>>
               ELSE store' = store]_vars

\* a MassDeactivate holds a deactivation and a replacement uncommitted while
\* the other connection is about to read the PR: the member is still active
\* and the old link still there for it
C18_Witness ==
    \E c \in Procs, d \in Procs :
        /\ inflight[c].op = "MassDeactivate"
        /\ \E w \in inflight[c].wlinks :
             /\ w[2] \in inflight[c].locked
             /\ users[w[2]].is_active
             /\ <<w[1], w[2]>> \in pr_reviewers
        /\ Running(d, "MergePR", "get")

\* the order in which the requests that create a team list its members
Roster == <<"u1", "u2", "u3", "u4">>

RosterIndex(u) == CHOOSE i \in 1..Len(Roster) : Roster[i] = u

\* the first n members of S in roster order
FirstInRoster(S, n) ==
    {u \in S : Cardinality({v \in S : RosterIndex(v) < RosterIndex(u)}) < n}

\* C19: reviewer selection follows the roster order: a successful CreatePR
\* assigns the first two eligible members of the author's team in that
\* order, and a successful ReassignReviewer picks the first candidate in that
\* order, so the same stored state and request always give the same reviewers.
C19_SelectionInRosterOrder ==
    [][/\ (last'.op = "CreatePR" /\ last'.err = OK) =>
            \A id \in PRIds, a \in Users, title \in Titles :
              CreatePR(id, title, a) =>
                 \E t \in TeamsOf(a) :
                    ReviewersOf(id)' = FirstInRoster(EligibleFor(t, a), 2)
       /\ (last'.op = "ReassignReviewer" /\ last'.err = OK) =>
            \A p \in PRIds, old \in Users :
              ReassignReviewer(p, old) =>
                 \E t \in TeamsOf(old) :
                    {last'.replaced_by} =
                       FirstInRoster({u \in EligibleFor(t, old) :
                                        <<p, u>> \notin pr_reviewers}, 1)]_vars

\* C20: every error answer has the HTTP status of its error code: 409 for
\* TEAM_EXISTS, PR_EXISTS, PR_MERGED, NOT_ASSIGNED and NO_CANDIDATE, 404 for
\* NOT_FOUND, and 400 for a malformed or incomplete request.
C20_StatusOfErrorCode ==
    /\ badRequest.status = 400
    /\ LET answer == Answer(last) IN
       /\ answer.code \in {"TEAM_EXISTS", "PR_EXISTS", "PR_MERGED",
                            "NOT_ASSIGNED", "NO_CANDIDATE"} => answer.status = 409
       /\ answer.code = "NOT_FOUND" => answer.status = 404

\* C21: every operation of the Store interface is reachable through a
\* registered route: a POST to /team/{team}/deactivate for an existing team
\* and a GET to /stats/assignments are each dispatched to a handler (that
\* calls MassDeactivate, GetStats) and answered with status 200 when the
\* store call succeeds.
C21_StoreOperationsRouted ==
    /\ \A t \in teams :
         /\ Match("POST", <<"team", t, "deactivate">>)
               \notin {"NotFound", "MethodNotAllowed"}
         /\ ServeHTTP("POST", <<"team", t, "deactivate">>, OK).status = 200
    /\ Match("GET", <<"stats", "assignments">>)
          \notin {"NotFound", "MethodNotAllowed"}
    /\ ServeHTTP("GET", <<"stats", "assignments">>, OK).status = 200

\* C22: two ReassignReviewer requests that overlap on one PR are
\* serializable: their results and the final reviewer set are those of the
\* two calls run one after the other in some order; so the statement of a
\* call that goes on to report success with new id n has put n on the PR in
\* place of old, and a call that fails returns one of NotFound, PRMerged,
\* NotAssigned, NoCandidate.
C22_ReassignSerializable ==
    [][\A c \in Procs :
         /\ (ReassignReviewerUpdate(c) /\ inflight'[c].pc = "get") =>
               LET p == inflight[c].id
                   old == inflight[c].arg
                   new == inflight[c].pick[3] IN
               /\ <<p, old>> \in pr_reviewers
               /\ pr_reviewers' = ReplaceLink(pr_reviewers, p, old, new)
         /\ (/\ inflight[c].op = "ReassignReviewer" /\ inflight'[c].op = "idle"
             /\ last'.err # OK) =>
               last'.err \in {ErrNotFound, ErrPRMerged, ErrNotAssigned,
                              ErrNoCandidate}]_vars

\* the call of connection c has inserted its PR row and is not yet done
Inserted(r) == r.op = "CreatePR" /\ r.pc \in {"team", "select", "link"}

\* C23: when two CreatePR requests with the same PR id overlap, exactly one
\* succeeds, the other fails with PRExists and writes nothing, and the stored
\* PR (title, author, reviewers) is entirely the winner's: the call whose
\* INSERT finds the row there fails with PRExists, at most one call gets past
\* its INSERT, that call succeeds, the row carries its title and author, and
\* only its statements write reviewer links.
C23_ConcurrentCreateOneWinner ==
    [][\A c \in Procs :
         /\ (CreatePRInsert(c) /\ inflight[c].id \in DOMAIN prs) =>
               /\ inflight'[c].op = "idle"
               /\ last'.err = ErrPRExists
               /\ store' = store
         /\ Inserted(inflight'[c]) =>
               /\ prs'[inflight'[c].id].title = inflight'[c].arg[1]
               /\ prs'[inflight'[c].id].author_id = inflight'[c].arg[2]
               /\ \A d \in Procs \ {c} : ~Inserted(inflight'[d])
         /\ (Inserted(inflight[c]) /\ inflight'[c].op = "idle") => last'.err = OK
         /\ (inflight[c].op = "CreatePR" /\ ~Inserted(inflight[c])
             /\ inflight'[c] # inflight[c]) =>
               pr_reviewers' = pr_reviewers]_vars

\* C24: a PR's status only moves OPEN -> MERGED and merged_at is written
\* once: no step changes a merged_at that is non-null or the status of a
\* MERGED PR, also when two MergePR requests for the PR overlap.
C24_MergedAtWrittenOnce ==
    [][\A p \in DOMAIN prs :
         /\ p \in DOMAIN prs'
         /\ prs'[p].status \in {OPEN, MERGED}
         /\ prs[p].status = MERGED => prs'[p].status = MERGED
         /\ prs[p].merged_at # Null => prs'[p].merged_at = prs[p].merged_at]_vars

\* C25: whenever CreatePR, ReassignReviewer or MassDeactivate writes a user
\* into a PR's reviewer set, that user is active in the store at the moment
\* the link is written, also when a SetUserActive or MassDeactivate request
\* overlaps; and a SetUserActive call leaves every reviewer set as it is.
C25_ReviewerActiveWhenWritten ==
    [][/\ \A link \in pr_reviewers' \ pr_reviewers :
            link[2] \in DOMAIN users /\ users[link[2]].is_active
       /\ \A u \in Users, a \in BOOLEAN :
            SetUserActive(u, a) => pr_reviewers' = pr_reviewers]_vars

\* the PRs whose reviewer set a step changes
Replaced == {p \in DOMAIN prs : ReviewersOf(p)' # ReviewersOf(p)}

\* the ids in a list
Range(seq) == {seq[i] : i \in 1..Len(seq)}

\* C26: the reassigned PR ids MassDeactivate returns are exactly the PRs in
\* which the call replaced at least one reviewer, each id listed once, so
\* that reassigned_count (the length of the list) is the number of those
\* PRs, also when both reviewers of one PR are replaced.
C26_ReassignedListsEachPROnce ==
    [][last'.op = "MassDeactivate" =>
       LET T == last'.call[1]
           X == last'.call[2] IN
         (MassDeactivate(T, X) /\ last'.err = OK) =>
            /\ Range(last'.reassigned) = Replaced
            /\ Len(last'.reassigned) = Cardinality(Replaced)]_vars

\* C27: every user MassDeactivate(T, X) writes as a replacement reviewer is a
\* member of T that is listed in X and was active before the call; so when X
\* holds no active member of T the call replaces no reviewer and returns an
\* empty list.
C27_ReplacementFromExcluded ==
    [][last'.op = "MassDeactivate" =>
       LET T == last'.call[1]
           X == last'.call[2] IN
         MassDeactivate(T, X) =>
            /\ \A link \in pr_reviewers' \ pr_reviewers :
                 /\ <<T, link[2]>> \in team_members
                 /\ link[2] \in X
                 /\ users[link[2]].is_active
            /\ {u \in X : <<T, u>> \in team_members /\ u \in DOMAIN users
                            /\ users[u].is_active} = {} =>
                 /\ pr_reviewers' = pr_reviewers
                 /\ last'.reassigned = <<>>]_vars
====
